---- MODULE Spec2Model ----
(***************************************************************************)
(* A model of tev's image ingestion core: the BackgroundImagesLoader's     *)
(* order-restoring publish queue, the draw-id based scheduling priorities, *)
(* tryLoadImage's error boundary and ImageData's validation                *)
(* (ensureValid, multiplyAlpha, unmultiplyAlpha).                          *)
(***************************************************************************)
EXTENDS Integers, Sequences, FiniteSets, TLC

\* ------------------------------------------------------------------ bounds
\* Number of BackgroundImagesLoader::enqueue calls explored.
MaxLoads == 3
\* Number of foreground / stream tryLoadImage calls explored.
MaxForeground == 2

VARIABLES
    sId,                    \* Image::sId, the draw-id counter
    mUnsortedLoadCounter,   \* next sequence id handed out by enqueue
    mLoadCounter,           \* next sequence id expected by publishSortedLoads
    loads,                  \* the detached coroutines started by enqueue, by loadId + 1
    mPendingLoadedImages,   \* completed, not yet published records
    mLoadedImages,          \* the published FIFO
    polled,                 \* records the consumer has taken from the FIFO
    posts,                  \* number of glfwPostEmptyEvent calls
    foreground,             \* tryLoadImage calls made outside the background loader
    input,                  \* the ImageData as the loader produced it
    selector,               \* the channel selector of the load
    data,                   \* the ImageData being validated
    history,                \* the operations run on data so far, with their results
    attempt                 \* the tryLoadImage attempt on input: what it raised and returned

loaderVars == <<sId, mUnsortedLoadCounter, mLoadCounter, loads,
                mPendingLoadedImages, mLoadedImages, polled, posts, foreground>>

imageVars == <<input, selector, data, history, attempt>>

vars == <<loaderVars, imageVars>>

\* ------------------------------------------------------ draw ids, priorities
\* Image::drawId() hands out the counter's value and advances it.
drawId == sId

\* The priority of the coroutine started by enqueue.
EnqueuePriorityMirrored(id) == id
EnqueuePriority(id) == -id

\* tryLoadImage(path, channelSelector): priority is the draw id itself.
ForegroundPriorityNegated(id) == -id
ForegroundPriority(id) == id

\* tryLoadImage(path, iStream, channelSelector): priority is the negated draw id.
StreamPriority(id) == -id

\* -------------------------------------------------- tryLoadImage's boundary
\* What the try block of tryLoadImage can raise ("none": it ran to co_return images).
ExceptionKinds == {"invalid_argument", "runtime_error", "BaseExc", "future_error",
                   "length_error"}

\* The catch clauses of tryLoadImage.
IsCaught(e) == e \in {"invalid_argument", "runtime_error", "BaseExc", "future_error"}

\* The result of one tryLoadImage attempt whose try block raised `raised`.
TryLoadOutcome(raised) ==
    IF raised = "none" THEN "images"
    ELSE IF IsCaught(raised) THEN "empty"
    ELSE "escaped"

\* ---------------------------------------------------------------- strings
\* A std::string is the sequence of its characters.
Dot == "."

CharCode(c) ==
    CASE c = "." -> 46
      [] c = "A" -> 65
      [] c = "B" -> 66
      [] c = "G" -> 71
      [] c = "N" -> 78
      [] c = "R" -> 82
      [] c = "U" -> 85
      [] c = "V" -> 86
      [] c = "X" -> 88
      [] c = "Z" -> 90
      [] c = "a" -> 97
      [] c = "b" -> 98
      [] c = "z" -> 122

\* std::string's operator<, the order of std::set<string>.
LexLess(s, t) ==
    \E k \in 1 .. (Len(s) + 1) :
        /\ k <= Len(t)
        /\ SubSeq(s, 1, k - 1) = SubSeq(t, 1, k - 1)
        /\ (k = Len(s) + 1 \/ CharCode(s[k]) < CharCode(t[k]))

\* name.find(".") != npos
HasDot(s) == \E i \in 1 .. Len(s) : s[i] = Dot

\* s.starts_with(p)
StartsWith(s, p) == Len(p) <= Len(s) /\ SubSeq(s, 1, Len(p)) = p

\* s.substr(pos)
Substr(s, pos) == SubSeq(s, pos + 1, Len(s))

\* text.find(word) != npos
Contains(s, w) == \E k \in 0 .. (Len(s) - Len(w)) : SubSeq(s, k + 1, k + Len(w)) = w

\* The position of the last dot of s, 0 when it has none.
LastDot(s) ==
    IF HasDot(s)
    THEN CHOOSE i \in 1 .. Len(s) : s[i] = Dot /\ \A j \in (i + 1) .. Len(s) : s[j] # Dot
    ELSE 0

\* Channel::head: the layer of a channel name, what precedes its last dot.
ChannelHead(s) == IF LastDot(s) = 0 THEN <<>> ELSE SubSeq(s, 1, LastDot(s) - 1)

\* Channel::tail: what follows the last dot.
ChannelTail(s) == SubSeq(s, LastDot(s) + 1, Len(s))

\* The elements of a set of strings in the iteration order of std::set<string>.
RECURSIVE SortedStrings(_)
SortedStrings(S) ==
    IF S = {} THEN <<>>
    ELSE LET m == CHOOSE x \in S : \A y \in S \ {x} : LexLess(x, y)
         IN <<m>> \o SortedStrings(S \ {m})

\* matchesFuzzy(text, filter, &matchedPartId): the filter is a list of words;
\* the text matches when it contains one of them, and the id is the index of the
\* first word it contains.
MatchesFuzzy(text, filter) ==
    \E w \in 1 .. Len(filter) : Contains(text, filter[w])

MatchId(text, filter) ==
    (CHOOSE w \in 1 .. Len(filter) :
        /\ Contains(text, filter[w])
        /\ \A v \in 1 .. (w - 1) : ~Contains(text, filter[v])) - 1

\* ----------------------------------------------------------- float values
\* A float is the exact rational <<numerator, denominator>> in lowest terms; the
\* values explored are small dyadic rationals, on which float arithmetic is exact.
RECURSIVE GCD(_, _)
GCD(a, b) == IF b = 0 THEN a ELSE GCD(b, a % b)

Norm(q) == IF q[1] = 0 THEN <<0, 1>>
           ELSE LET g == GCD(q[1], q[2]) IN <<q[1] \div g, q[2] \div g>>

\* at(i) *= other.at(i)
MultiplyWith(v, a) == Norm(<<v[1] * a[1], v[2] * a[2]>>)

\* if (other.at(i) != 0) at(i) /= other.at(i); else at(i) = 0;
DivideByKeeping(v, a) == IF a[1] # 0 THEN Norm(<<v[1] * a[2], v[2] * a[1]>>) ELSE v
DivideBy(v, a) == IF a[1] # 0 THEN Norm(<<v[1] * a[2], v[2] * a[1]>>) ELSE <<0, 1>>

\* ------------------------------------------------------------- ImageData
\* Box2i: valid iff max > min on both axes; size = max - min.
BoxOfSize(size) == [min |-> <<0, 0>>, max |-> size]
InvalidBox == [min |-> <<1, 1>>, max |-> <<0, 0>>]
IsValid(box) == box.max[1] > box.min[1] /\ box.max[2] > box.min[2]
BoxSize(box) == <<box.max[1] - box.min[1], box.max[2] - box.min[2]>>

\* ImageData::size()
SizeOf(d) == BoxSize(d.dataWindow)

\* Channel::count()
Count(c) == c.size[1] * c.size[2]

ChannelNames(d) == [i \in 1 .. Len(d.channels) |-> d.channels[i].name]

\* ImageData::hasChannel
HasChannel(d, name) == \E i \in 1 .. Len(d.channels) : d.channels[i].name = name

\* ImageData::channel / mutableChannel: the first channel of that name.
ChannelIndex(d, name) ==
    CHOOSE i \in 1 .. Len(d.channels) :
        /\ d.channels[i].name = name
        /\ \A j \in 1 .. (i - 1) : d.channels[j].name # name

\* ImageData::channelsInLayer
InRootLayer(name) == ~HasDot(name)
InNamedLayer(name, layerName) ==
    /\ StartsWith(name, layerName)
    /\ Len(name) > Len(layerName)
    /\ ~HasDot(Substr(name, Len(layerName) + 1))

ChannelsInLayer(d, layerName) ==
    LET InLayer(name) == IF layerName = <<>>
                         THEN InRootLayer(name)
                         ELSE InNamedLayer(name, layerName)
    IN SelectSeq(ChannelNames(d), InLayer)

LayerPrefix(layer) == IF layer = <<>> THEN <<>> ELSE layer \o <<Dot>>
AlphaChannelName(layer) == LayerPrefix(layer) \o <<"A">>

\* ImageData::alphaOperation: the calls func(target, alpha) it makes, in order,
\* as pairs <<target name, alpha name>>.
LayerAlphaOps(d, layer) ==
    IF ~HasChannel(d, AlphaChannelName(layer)) THEN <<>>
    ELSE LET NotAlpha(name) == name # AlphaChannelName(layer)
             targets == SelectSeq(ChannelsInLayer(d, layer), NotAlpha)
         IN [k \in 1 .. Len(targets) |-> <<targets[k], AlphaChannelName(layer)>>]

RECURSIVE AlphaOpsFrom(_, _)
AlphaOpsFrom(d, l) ==
    IF l > Len(d.layers) THEN <<>>
    ELSE LayerAlphaOps(d, d.layers[l]) \o AlphaOpsFrom(d, l + 1)

AlphaOperation(d) == AlphaOpsFrom(d, 1)

\* The tasks of multiplyAlpha and unmultiplyAlpha run concurrently on the pool.
\* Two tasks with the same target channel race on its elements, so an update
\* can be lost: "all" applies every task's update, "dropFirst" / "dropLast" lose
\* the first / last update of every target that more than one task writes.
RaceOutcomes == {"all", "dropFirst", "dropLast"}

IsLost(ops, k, race) ==
    \/ race = "dropFirst" /\ (\E j \in (k + 1) .. Len(ops) : ops[j][1] = ops[k][1])
                          /\ (\A j \in 1 .. (k - 1) : ops[j][1] # ops[k][1])
    \/ race = "dropLast"  /\ (\E j \in 1 .. (k - 1) : ops[j][1] = ops[k][1])
                          /\ (\A j \in (k + 1) .. Len(ops) : ops[j][1] # ops[k][1])

\* The element function of Channel::multiplyWithAsync / divideByAsync.
ElementFunc(func, v, a) ==
    IF func = "multiplyWith" THEN MultiplyWith(v, a) ELSE DivideBy(v, a)

\* One elementwise task: target.at(i) = func(target.at(i), alpha.at(i)) for
\* every i below alpha.count().
ApplyOp(d, op, func) ==
    LET t == ChannelIndex(d, op[1])
        a == ChannelIndex(d, op[2])
    IN [d EXCEPT !.channels[t].data =
            [i \in 1 .. Len(@) |->
                IF i <= Count(d.channels[a])
                THEN ElementFunc(func, @[i], d.channels[a].data[i])
                ELSE @[i]]]

RECURSIVE ApplyOps(_, _, _, _, _)
ApplyOps(d, ops, k, race, func) ==
    IF k > Len(ops) THEN d
    ELSE ApplyOps(IF IsLost(ops, k, race) THEN d ELSE ApplyOp(d, ops[k], func),
                  ops, k + 1, race, func)

\* ImageData::multiplyAlpha: [data, status].
MultiplyAlphaUnguarded(d, race) ==
    [data   |-> [ApplyOps(d, AlphaOperation(d), 1, race, "multiplyWith")
                    EXCEPT !.hasPremultipliedAlpha = TRUE],
     status |-> "ok"]

MultiplyAlpha(d, race) ==
    IF d.hasPremultipliedAlpha
    THEN [data |-> d, status |-> "DoubleMultiply"]
    ELSE [data   |-> [ApplyOps(d, AlphaOperation(d), 1, race, "multiplyWith")
                        EXCEPT !.hasPremultipliedAlpha = TRUE],
          status |-> "ok"]

\* ImageData::unmultiplyAlpha: [data, status].
UnmultiplyAlpha(d, race) ==
    IF ~d.hasPremultipliedAlpha
    THEN [data |-> d, status |-> "DoubleDivide"]
    ELSE [data   |-> [ApplyOps(d, AlphaOperation(d), 1, race, "divideBy")
                        EXCEPT !.hasPremultipliedAlpha = FALSE],
          status |-> "ok"]

\* ------------------------------------------------- BackgroundImagesLoader
\* ImageAddition::Comparator orders the priority queue by loadId, smallest on top.
Top(q) == CHOOSE r \in q : \A s \in q : r.loadId <= s.loadId

\* The loop condition of publishSortedLoads.
DrainCondAny(q, counter) == q # {}
DrainCond(q, counter) == q # {} /\ Top(q).loadId = counter

\* Whether publishSortedLoads appends the popped record to mLoadedImages.
ShallPublishAlways(r) == TRUE
ShallPublish(r) == r.images # <<>>

\* The while loop of publishSortedLoads, from the state st =
\* [counter, pending, loaded, pushed].
DrainOnce(st) ==
    IF DrainCond(st.pending, st.counter)
    THEN LET top == Top(st.pending)
         IN [counter |-> st.counter + 1,
             pending |-> st.pending \ {top},
             loaded  |-> IF ShallPublish(top)
                         THEN Append(st.loaded, top)
                         ELSE st.loaded,
             pushed  |-> TRUE]
    ELSE st

RECURSIVE DrainPushedOnAppend(_)
DrainPushedOnAppend(st) ==
    IF DrainCond(st.pending, st.counter)
    THEN LET top == Top(st.pending)
         IN DrainPushedOnAppend([counter |-> st.counter + 1,
                                 pending |-> st.pending \ {top},
                                 loaded  |-> IF ShallPublish(top)
                                             THEN Append(st.loaded, top)
                                             ELSE st.loaded,
                                 pushed  |-> st.pushed \/ ShallPublish(top)])
    ELSE st

RECURSIVE Drain(_)
Drain(st) ==
    IF DrainCond(st.pending, st.counter)
    THEN LET top == Top(st.pending)
         IN Drain([counter |-> st.counter + 1,
                   pending |-> st.pending \ {top},
                   loaded  |-> IF ShallPublish(top)
                               THEN Append(st.loaded, top)
                               ELSE st.loaded,
                   pushed  |-> TRUE])
    ELSE st

LoadIds == 0 .. (mUnsortedLoadCounter - 1)
LoadOf(id) == loads[id + 1]

SetLoad(id, r) == [loads EXCEPT ![id + 1] = r]

\* The shallSelect arguments explored: the flag is carried in the record and
\* read by nothing modelled here.
ShallSelectInputs == {TRUE}

\* enqueue: takes the sequence id, starts the detached coroutine, which runs
\* up to its first suspension (co_await enqueueCoroutine) and so takes its
\* priority from the draw-id counter.
Enqueue ==
    /\ mUnsortedLoadCounter < MaxLoads
    /\ \E shallSelect \in ShallSelectInputs :
        loads' = Append(loads, [loadId       |-> mUnsortedLoadCounter,
                                pc           |-> "queued",
                                taskPriority |-> EnqueuePriority(drawId),
                                shallSelect  |-> shallSelect,
                                images       |-> <<>>,
                                pushed       |-> FALSE])
    /\ mUnsortedLoadCounter' = mUnsortedLoadCounter + 1
    /\ sId' = sId + 1
    /\ UNCHANGED <<mLoadCounter, mPendingLoadedImages, mLoadedImages, polled,
                   posts, foreground, imageVars>>

\* The coroutine resumes on a pool worker and awaits tryLoadImage. A successful
\* load constructs one Image, which takes a draw id.
Load(id) ==
    /\ LoadOf(id).pc = "queued"
    /\ \E raised \in {"none"} \cup ExceptionKinds :
        LET outcome == TryLoadOutcome(raised) IN
        CASE outcome = "images" ->
                /\ loads' = SetLoad(id, [LoadOf(id) EXCEPT !.pc = "loaded",
                                                           !.images = <<drawId>>])
                /\ sId' = sId + 1
          [] outcome = "empty" ->
                /\ loads' = SetLoad(id, [LoadOf(id) EXCEPT !.pc = "loaded"])
                /\ sId' = sId
          [] outcome = "escaped" ->
                /\ loads' = SetLoad(id, [LoadOf(id) EXCEPT !.pc = "escaped"])
                /\ sId' = sId
    /\ UNCHANGED <<mUnsortedLoadCounter, mLoadCounter, mPendingLoadedImages,
                   mLoadedImages, polled, posts, foreground, imageVars>>

\* The first locked block of the coroutine: push the record.
Push(id) ==
    /\ LoadOf(id).pc = "loaded"
    /\ mPendingLoadedImages' = mPendingLoadedImages \cup
            {[loadId      |-> id,
              shallSelect |-> LoadOf(id).shallSelect,
              images      |-> LoadOf(id).images]}
    /\ loads' = SetLoad(id, [LoadOf(id) EXCEPT !.pc = "pushed"])
    /\ UNCHANGED <<sId, mUnsortedLoadCounter, mLoadCounter, mLoadedImages, polled,
                   posts, foreground, imageVars>>

\* publishSortedLoads, called by the coroutine after its push, under the lock.
PublishSortedLoads(id) ==
    /\ LoadOf(id).pc = "pushed"
    /\ LET st == Drain([counter |-> mLoadCounter,
                        pending |-> mPendingLoadedImages,
                        loaded  |-> mLoadedImages,
                        pushed  |-> FALSE])
       IN /\ mLoadCounter' = st.counter
          /\ mPendingLoadedImages' = st.pending
          /\ mLoadedImages' = st.loaded
          /\ loads' = SetLoad(id, [LoadOf(id) EXCEPT !.pc = "returned",
                                                     !.pushed = st.pushed])
    /\ UNCHANGED <<sId, mUnsortedLoadCounter, polled, posts, foreground, imageVars>>

\* if (publishSortedLoads()) glfwPostEmptyEvent(); the coroutine ends.
PostEvent(id) ==
    /\ LoadOf(id).pc = "returned"
    /\ posts' = IF LoadOf(id).pushed THEN posts + 1 ELSE posts
    /\ loads' = SetLoad(id, [LoadOf(id) EXCEPT !.pc = "done"])
    /\ UNCHANGED <<sId, mUnsortedLoadCounter, mLoadCounter, mPendingLoadedImages,
                   mLoadedImages, polled, foreground, imageVars>>

\* The consumer's poll: takes everything the FIFO holds.
Poll ==
    /\ mLoadedImages # <<>>
    /\ polled' = polled \o mLoadedImages
    /\ mLoadedImages' = <<>>
    /\ UNCHANGED <<sId, mUnsortedLoadCounter, mLoadCounter, loads,
                   mPendingLoadedImages, posts, foreground, imageVars>>

InitLoader ==
    /\ sId = 0
    /\ mUnsortedLoadCounter = 0
    /\ mLoadCounter = 0
    /\ loads = <<>>
    /\ mPendingLoadedImages = {}
    /\ mLoadedImages = <<>>
    /\ polled = <<>>
    /\ posts = 0
    /\ foreground = <<>>


\* --------------------------------------------------- ImageData::ensureValid
\* No data window? Default to the channel size (and likewise the display window).
DefaultWindows(d) ==
    [d EXCEPT !.dataWindow    = IF IsValid(@) THEN @ ELSE BoxOfSize(d.channels[1].size),
              !.displayWindow = IF IsValid(@) THEN @ ELSE BoxOfSize(d.channels[1].size)]

\* The size check: some channel's size differs from the data window's.
SizeMismatchFirstOnly(d) == d.channels[1].size # SizeOf(d)
SizeMismatch(d) == \E i \in 1 .. Len(d.channels) : d.channels[i].size # SizeOf(d)

\* The (matchId, i) pairs of the channels matching the selector, i from 0.
Matches(d, sel) ==
    LET IsMatch(i) == MatchesFuzzy(d.channels[i].name, sel)
        idx == SelectSeq([i \in 1 .. Len(d.channels) |-> i], IsMatch)
    IN [k \in 1 .. Len(idx) |-> <<MatchId(d.channels[idx[k]].name, sel), idx[k] - 1>>]

\* std::pair's operator<, the order sort() uses.
PairLessByIndex(p, q) == p[2] < q[2]
PairLess(p, q) == p[1] < q[1] \/ (p[1] = q[1] /\ p[2] < q[2])

RECURSIVE SortedPairs(_)
SortedPairs(S) ==
    IF S = {} THEN <<>>
    ELSE LET m == CHOOSE x \in S : \A y \in S \ {x} : PairLess(x, y)
         IN <<m>> \o SortedPairs(S \ {m})

\* sort(begin(matches), end(matches))
Sort(matches) == SortedPairs({matches[k] : k \in 1 .. Len(matches)})

\* Prune and sort channels by the channel selector.
SelectChannels(d, sel) ==
    IF sel = <<>> THEN d
    ELSE LET matches == Sort(Matches(d, sel))
         IN [d EXCEPT !.channels =
                [k \in 1 .. Len(matches) |-> d.channels[matches[k][2] + 1]]]

\* The set of layer names of a channel list, in std::set order.
LayerNames(channels) ==
    SortedStrings({ChannelHead(channels[i].name) : i \in 1 .. Len(channels)})

DeriveLayers(d) ==
    IF d.layers = <<>> THEN [d EXCEPT !.layers = LayerNames(d.channels)] ELSE d

\* ImageData::ensureValid: [data, status]; every status but "ok" is a
\* runtime_error, and data is what the ImageData holds when it is thrown.
EnsureValid(d, sel, race) ==
    IF d.channels = <<>> THEN [data |-> d, status |-> "EmptyImage"]
    ELSE LET d1 == DefaultWindows(d) IN
         IF SizeMismatch(d1) THEN [data |-> d1, status |-> "SizeMismatch"]
         ELSE LET d3 == DeriveLayers(SelectChannels(d1, sel))
                  r  == IF ~d3.hasPremultipliedAlpha
                        THEN MultiplyAlpha(d3, race)
                        ELSE [data |-> d3, status |-> "ok"]
              IN IF r.status = "ok" /\ ~r.data.hasPremultipliedAlpha
                 THEN [data |-> r.data, status |-> "AssertionFailed"]
                 ELSE r

\* ----------------------------------------------- Image::getGroupedChannels
\* The canonical tuples, tried in this order.
Groups == << <<"R", "G", "B">>, <<"r", "g", "b">>, <<"X", "Y", "Z">>, <<"x", "y", "z">>,
             <<"U", "V">>, <<"u", "v">>, <<"Z">>, <<"z">> >>

\* find(begin(v), end(v), x) != end(v)
Found(v, x) == \E i \in 1 .. Len(v) : v[i] = x

\* v.erase(find(begin(v), end(v), x)): drops the first x.
Erase(v, x) ==
    LET i == CHOOSE k \in 1 .. Len(v) : v[k] = x /\ \A j \in 1 .. (k - 1) : v[j] # x
    IN SubSeq(v, 1, i - 1) \o SubSeq(v, i + 1, Len(v))

\* std::unique: drops every element equal to its predecessor.
Unique(v) ==
    LET Keep(i) == i = 1 \/ v[i] # v[i - 1]
        idx == SelectSeq([i \in 1 .. Len(v) |-> i], Keep)
    IN [k \in 1 .. Len(idx) |-> v[idx[k]]]

\* join(components, delim)
RECURSIVE JoinFrom(_, _, _)
JoinFrom(components, delim, k) ==
    IF k > Len(components) THEN <<>>
    ELSE (IF k = 1 THEN <<>> ELSE delim) \o components[k]
         \o JoinFrom(components, delim, k + 1)

Join(components, delim) == JoinFrom(components, delim, 1)

\* The createChannelGroup lambda: [name, channels].
CreateChannelGroupByMembers(layer, channels) ==
    LET Name(channelTails, channelsString) ==
            IF layer = <<>> THEN channelsString
            ELSE IF Len(channels) = 1 THEN layer \o <<Dot>> \o channelsString
            ELSE layer \o <<Dot, "(">> \o channelsString \o <<")">>
        NameOf(channelTails) == Name(channelTails, Join(channelTails, <<",">>))
        Tails(unique) == [k \in 1 .. Len(unique) |-> ChannelTail(unique[k])]
    IN [name |-> NameOf(Tails(Unique(channels))), channels |-> channels]

CreateChannelGroup(layer, channels) ==
    LET Name(channelTails, channelsString) ==
            IF layer = <<>> THEN channelsString
            ELSE IF Len(channelTails) = 1 THEN layer \o <<Dot>> \o channelsString
            ELSE layer \o <<Dot, "(">> \o channelsString \o <<")">>
        NameOf(channelTails) == Name(channelTails, Join(channelTails, <<",">>))
        Tails(unique) == [k \in 1 .. Len(unique) |-> ChannelTail(unique[k])]
    IN [name |-> NameOf(Tails(Unique(channels))), channels |-> channels]

\* The inner loop over one tuple: [all, group] after trying its members from k on.
RECURSIVE MatchTupleKeeping(_, _, _, _)
MatchTupleKeeping(st, group, k, layerPrefix) ==
    IF k > Len(group) THEN st
    ELSE LET name == layerPrefix \o <<group[k]>>
         IN MatchTupleKeeping(IF Found(st.all, name)
                              THEN [all |-> st.all, group |-> Append(st.group, name)]
                              ELSE st,
                              group, k + 1, layerPrefix)

RECURSIVE MatchTuple(_, _, _, _)
MatchTuple(st, group, k, layerPrefix) ==
    IF k > Len(group) THEN st
    ELSE LET name == layerPrefix \o <<group[k]>>
         IN MatchTuple(IF Found(st.all, name)
                       THEN [all |-> Erase(st.all, name), group |-> Append(st.group, name)]
                       ELSE st,
                       group, k + 1, layerPrefix)

\* One iteration of the loop over the tuples: [all, result] after trying the
\* tuple Groups[g].
MatchGroup(st, g, layerName, hasAlpha) ==
    LET Tripled(groupChannels) ==
            IF Len(groupChannels) = 1
            THEN <<groupChannels[1], groupChannels[1], groupChannels[1]>>
            ELSE groupChannels
        WithAlpha(groupChannels) ==
            IF hasAlpha
            THEN Append(groupChannels, AlphaChannelName(layerName))
            ELSE groupChannels
        Matched(m) ==
            [all    |-> m.all,
             result |-> IF m.group # <<>>
                        THEN Append(st.result,
                                CreateChannelGroup(layerName, WithAlpha(Tripled(m.group))))
                        ELSE st.result]
    IN Matched(MatchTuple([all |-> st.all, group |-> <<>>], Groups[g], 1,
                          LayerPrefix(layerName)))

\* The loop over the tuples: [all, result] after trying the tuples from g on
\* (each iteration's state is computed before the next iteration starts).
RECURSIVE MatchGroups(_, _, _, _)
MatchGroups(st, g, layerName, hasAlpha) ==
    IF g > Len(Groups) THEN st
    ELSE CHOOSE r \in {MatchGroups(next, g + 1, layerName, hasAlpha) :
                          next \in {MatchGroup(st, g, layerName, hasAlpha)}} : TRUE

\* Image::getGroupedChannels: [groups, status]; "AssertionFailed" is the
\* runtime_error of TEV_ASSERT(!result.empty(), ...).
GetGroupedChannels(d, layerName) ==
    LET alphaChannelName == AlphaChannelName(layerName)
        Checked(result) ==
            [groups |-> result,
             status |-> IF result = <<>> THEN "AssertionFailed" ELSE "ok"]
        AlphaOnly(result, hasAlpha) ==
            IF hasAlpha /\ result = <<>>
            THEN <<CreateChannelGroup(layerName,
                        <<alphaChannelName, alphaChannelName, alphaChannelName>>)>>
            ELSE result
        Singles(allChannels, hasAlpha) ==
            [k \in 1 .. Len(allChannels) |->
                CreateChannelGroup(layerName,
                    IF hasAlpha
                    THEN <<allChannels[k], allChannels[k], allChannels[k], alphaChannelName>>
                    ELSE <<allChannels[k], allChannels[k], allChannels[k]>>)]
        Grouped(m, hasAlpha) ==
            Checked(AlphaOnly(m.result \o Singles(m.all, hasAlpha), hasAlpha))
        InLayer(allChannels, hasAlpha) ==
            Grouped(MatchGroups([all    |-> IF hasAlpha
                                            THEN Erase(allChannels, alphaChannelName)
                                            ELSE allChannels,
                                 result |-> <<>>], 1, layerName, hasAlpha),
                    hasAlpha)
        WithLayer(allChannels) == InLayer(allChannels, Found(allChannels, alphaChannelName))
    IN WithLayer(ChannelsInLayer(d, layerName))

\* The loop of Image::Image over mData.layers, from the layer l on:
\* [groups, status].
RECURSIVE GroupLayers(_, _)
GroupLayers(d, l) ==
    IF l > Len(d.layers) THEN [groups |-> <<>>, status |-> "ok"]
    ELSE LET Extend(g, rest) ==
                IF g.status # "ok" THEN [groups |-> <<>>, status |-> g.status]
                ELSE [groups |-> g.groups \o rest.groups, status |-> rest.status]
         IN Extend(GetGroupedChannels(d, d.layers[l]), GroupLayers(d, l + 1))

\* Image::Image: takes the draw id and groups the channels of every layer:
\* [image, status].
NewImage(d, id) ==
    LET Built(g) == [image  |-> [mData |-> d, mId |-> id, mChannelGroups |-> g.groups],
                     status |-> g.status]
    IN Built(GroupLayers(d, 1))

\* ------------------------------------------------------- ImageData inputs
\* Channels per ImageData and operations per ImageData explored.
MaxChannels == 3
MaxOps == 3

Names == {<<"A">>, <<"R">>, <<"a", ".", "A">>, <<"a", ".", "R">>, <<"a", "b">>}

\* Channel lists of distinct names.
ChannelLists ==
    {s \in UNION {[1 .. k -> Names] : k \in 0 .. MaxChannels} :
        \A i, j \in 1 .. Len(s) : i # j => s[i] # s[j]}

Sizes == {<<1, 1>>, <<2, 1>>}

\* Selectors, as their word lists: none, "R", "R,A", "G".
Selectors == {<<>>, <<<<"R">>>>, <<<<"R">>, <<"A">>>>, <<<<"G">>>>}

Half == <<1, 2>>
One == <<1, 1>>
Two == <<2, 1>>
Zero == <<0, 1>>

\* The pixel values a loader delivers, in two variants: every colour 1 with
\* alphas 1/2 and 2, and mixed values with zero alphas.
InitialValue(name, variant, i) ==
    IF variant = 1
    THEN CASE name = <<"A">> -> Half
           [] name = <<"a", ".", "A">> -> Two
           [] OTHER -> One
    ELSE CASE name = <<"A">> -> IF i = 1 THEN Zero ELSE Two
           [] name = <<"a", ".", "A">> -> IF i = 1 THEN Half ELSE Zero
           [] name = <<"R">> -> IF i = 1 THEN Two ELSE One
           [] name = <<"a", ".", "R">> -> IF i = 1 THEN Half ELSE One
           [] OTHER -> IF i = 1 THEN One ELSE Two

MakeChannel(name, size, variant) ==
    [name |-> name, size |-> size,
     data |-> [i \in 1 .. (size[1] * size[2]) |-> InitialValue(name, variant, i)]]

\* The ImageData a loader returns: layers left empty (ExrImageLoader) or set to
\* the heads of all channel names (EmptyImageLoader).
MakeImageData(names, sizes, variant, windows, premultiplied, withLayers) ==
    LET channels == [i \in 1 .. Len(names) |-> MakeChannel(names[i], sizes[i], variant)]
    IN [channels |-> channels,
        layers |-> IF withLayers THEN LayerNames(channels) ELSE <<>>,
        dataWindow |-> windows[1],
        displayWindow |-> windows[2],
        hasPremultipliedAlpha |-> premultiplied]

WindowInputs == {<<InvalidBox, InvalidBox>>,
                 <<BoxOfSize(<<2, 1>>), BoxOfSize(<<2, 1>>)>>,
                 <<BoxOfSize(<<2, 1>>), InvalidBox>>}

Last(seq) == seq[Len(seq)]

\* co_await i.ensureValid(channelSelector, taskPriority) on a fresh ImageData.
EnsureValidStep ==
    /\ history = <<>>
    /\ \E race \in RaceOutcomes :
        LET r == EnsureValid(data, selector, race)
        IN /\ data' = r.data
           /\ history' = Append(history, [op |-> "ensureValid", status |-> r.status])
    /\ UNCHANGED <<input, selector, attempt, loaderVars>>

MultiplyAlphaStep ==
    /\ Len(history) < MaxOps
    /\ \E race \in RaceOutcomes :
        LET r == MultiplyAlpha(data, race)
        IN /\ data' = r.data
           /\ history' = Append(history, [op |-> "multiplyAlpha", status |-> r.status])
    /\ UNCHANGED <<input, selector, attempt, loaderVars>>

UnmultiplyAlphaStep ==
    /\ Len(history) < MaxOps
    /\ \E race \in RaceOutcomes :
        LET r == UnmultiplyAlpha(data, race)
        IN /\ data' = r.data
           /\ history' = Append(history, [op |-> "unmultiplyAlpha", status |-> r.status])
    /\ UNCHANGED <<input, selector, attempt, loaderVars>>

\* ------------------------------------------------------------ tryLoadImage
\* The try block of tryLoadImage(taskPriority, path, iStream, channelSelector)
\* with one loader result d: what it raises ("none": it reaches co_return
\* images), the images built, the ImageData as it leaves it, and whether an
\* Image constructor ran (and took a draw id).
TryBlock(streamOk, loaderRaises, d, sel, race, id) ==
    LET Constructed(v, img) ==
            IF img.status # "ok"
            THEN [raised |-> "runtime_error", images |-> <<>>, data |-> v.data,
                  drew |-> TRUE, assertion |-> img.status = "AssertionFailed"]
            ELSE [raised |-> "none", images |-> <<img.image>>, data |-> v.data,
                  drew |-> TRUE, assertion |-> FALSE]
        Checked(v) ==
            IF v.status # "ok"
            THEN [raised |-> "runtime_error", images |-> <<>>, data |-> v.data,
                  drew |-> FALSE, assertion |-> v.status = "AssertionFailed"]
            ELSE Constructed(v, NewImage(v.data, id))
    IN IF ~streamOk
       THEN [raised |-> "invalid_argument", images |-> <<>>, data |-> d, drew |-> FALSE,
             assertion |-> FALSE]
       ELSE IF loaderRaises # "none"
       THEN [raised |-> loaderRaises, images |-> <<>>, data |-> d, drew |-> FALSE,
             assertion |-> FALSE]
       ELSE Checked(EnsureValid(d, sel, race))

NoAttempt == [pc |-> "idle", raised |-> "none", images |-> <<>>, errors |-> 0]

\* One tryLoadImage attempt: the try block, then the catch clauses, each of
\* which logs one error through handleException and falls through to co_return {}.
TryLoadImageStep ==
    /\ history = <<>>
    /\ \E streamOk \in BOOLEAN :
       \E loaderRaises \in {"none"} \cup ExceptionKinds :
       \E race \in RaceOutcomes :
        LET t == TryBlock(streamOk, loaderRaises, input, selector, race, drawId)
            outcome == TryLoadOutcome(t.raised)
        IN /\ attempt' = [pc     |-> IF outcome = "escaped" THEN "escaped" ELSE "returned",
                          raised |-> t.raised,
                          images |-> IF outcome = "images" THEN t.images ELSE <<>>,
                          errors |-> IF outcome = "empty" THEN 1 ELSE 0]
           /\ data' = t.data
           /\ sId' = IF t.drew THEN sId + 1 ELSE sId
           /\ history' = Append(history, [op        |-> "tryLoadImage",
                                          status    |-> outcome,
                                          assertion |-> t.assertion])
    /\ UNCHANGED <<input, selector, mUnsortedLoadCounter, mLoadCounter, loads,
                   mPendingLoadedImages, mLoadedImages, polled, posts, foreground>>

\* No ImageData: the state of the image variables while only the loader runs.
NoImageData == MakeImageData(<<>>, <<>>, 1, <<InvalidBox, InvalidBox>>, FALSE, FALSE)

InitNoImage ==
    /\ input = NoImageData
    /\ data = input
    /\ selector = <<>>
    /\ history = <<>>
    /\ attempt = NoAttempt

\* Inputs of the validation: channels of any sizes, every selector and window.
InitValid ==
    /\ InitLoader
    /\ \E names \in ChannelLists :
       \E sizes \in [1 .. Len(names) -> Sizes] :
       \E windows \in WindowInputs :
       \E premultiplied, withLayers \in BOOLEAN :
            input = MakeImageData(names, sizes, 1, windows, premultiplied, withLayers)
    /\ data = input
    /\ selector \in Selectors
    /\ history = <<>>
    /\ attempt = NoAttempt

SpecValid == InitValid /\ [][EnsureValidStep]_vars

\* Inputs of a load attempt: the loader's ImageData with windows still unset.
InitLoad ==
    /\ InitLoader
    /\ \E names \in ChannelLists :
       \E sizes \in [1 .. Len(names) -> Sizes] :
       \E premultiplied, withLayers \in BOOLEAN :
            input = MakeImageData(names, sizes, 1, <<InvalidBox, InvalidBox>>,
                                  premultiplied, withLayers)
    /\ data = input
    /\ selector \in Selectors
    /\ history = <<>>
    /\ attempt = NoAttempt

SpecLoad == InitLoad /\ [][TryLoadImageStep]_vars

\* Inputs of the alpha operations: equally sized channels, both value variants.
InitAlpha ==
    /\ InitLoader
    /\ \E names \in ChannelLists :
       \E variant \in {1, 2} :
       \E premultiplied, withLayers \in BOOLEAN :
            input = MakeImageData(names, [i \in 1 .. Len(names) |-> <<2, 1>>], variant,
                                  <<InvalidBox, InvalidBox>>, premultiplied, withLayers)
    /\ data = input
    /\ selector \in {<<>>, <<<<"R">>, <<"A">>>>}
    /\ history = <<>>
    /\ attempt = NoAttempt

NextAlpha == EnsureValidStep \/ MultiplyAlphaStep \/ UnmultiplyAlphaStep

SpecAlpha == InitAlpha /\ [][NextAlpha]_vars

\* ------------------------------------------------- Channel operations
\* gThreadPool->parallelForAsync(start, end, body): the indices the body runs
\* on, each once; the chunks run in no fixed order.
ParallelFor(start, end, descending) ==
    [k \in 1 .. (end - start) |-> IF descending THEN end - k ELSE start + k - 1]

\* The loop of divideByAsync / multiplyWithAsync over the indices, from the
\* k-th on: [data, written], written being the indices whose at(i) was assigned.
RECURSIVE ElementwiseFrom(_, _, _, _, _)
ElementwiseFrom(st, other, indices, k, func) ==
    IF k > Len(indices) THEN st
    ELSE ElementwiseFrom(
            [data    |-> [st.data EXCEPT ![indices[k] + 1] =
                            ElementFunc(func, @, other.data[indices[k] + 1])],
             written |-> Append(st.written, indices[k])],
            other, indices, k + 1, func)

\* Channel::divideByAsync(other), awaited.
DivideByAsync(target, other, descending) ==
    ElementwiseFrom([data |-> target.data, written |-> <<>>], other,
                    ParallelFor(0, Count(other), descending), 1, "divideBy")

\* Channel::multiplyWithAsync(other), awaited.
MultiplyWithAsync(target, other, descending) ==
    ElementwiseFrom([data |-> target.data, written |-> <<>>], other,
                    ParallelFor(0, Count(other), descending), 1, "multiplyWith")

\* target.divideByAsync(other) on two distinct channels of equal size.
DivideByStep ==
    /\ Len(history) < MaxOps
    /\ \E t, o \in 1 .. Len(data.channels) : \E descending \in BOOLEAN :
        /\ t # o
        /\ data.channels[t].size = data.channels[o].size
        /\ LET Done(r) ==
                /\ data' = [data EXCEPT !.channels[t].data = r.data]
                /\ history' = Append(history, [op |-> "divideBy", status |-> "ok",
                                               target |-> t, other |-> o,
                                               written |-> r.written])
           IN Done(DivideByAsync(data.channels[t], data.channels[o], descending))
    /\ UNCHANGED <<input, selector, attempt, loaderVars>>

\* target.multiplyWithAsync(other) on two distinct channels of equal size.
MultiplyWithStep ==
    /\ Len(history) < MaxOps
    /\ \E t, o \in 1 .. Len(data.channels) : \E descending \in BOOLEAN :
        /\ t # o
        /\ data.channels[t].size = data.channels[o].size
        /\ LET Done(r) ==
                /\ data' = [data EXCEPT !.channels[t].data = r.data]
                /\ history' = Append(history, [op |-> "multiplyWith", status |-> "ok",
                                               target |-> t, other |-> o,
                                               written |-> r.written])
           IN Done(MultiplyWithAsync(data.channels[t], data.channels[o], descending))
    /\ UNCHANGED <<input, selector, attempt, loaderVars>>

\* Inputs of the channel operations: two channels of equal size, both value
\* variants.
InitChannel ==
    /\ InitLoader
    /\ \E names \in ChannelLists :
       \E size \in Sizes :
       \E variant \in {1, 2} :
            /\ Len(names) = 2
            /\ input = MakeImageData(names, [i \in 1 .. Len(names) |-> size], variant,
                                     <<BoxOfSize(size), BoxOfSize(size)>>, TRUE, FALSE)
    /\ data = input
    /\ selector = <<>>
    /\ history = <<>>
    /\ attempt = NoAttempt

NextChannel == DivideByStep \/ MultiplyWithStep

SpecChannel == InitChannel /\ [][NextChannel]_vars

\* ------------------------------------------------------- Channel::eval
\* Reads per channel explored.
MaxReads == 2

\* What mData(index) gives for an index outside the buffer: the read is
\* undefined, it yields whatever lies there (0 or any other float) or fails
\* (Eigen's index assertion in builds that keep it).
OutsideReads == {[value |-> <<0, 1>>, status |-> "ok"],
                 [value |-> <<9, 1>>, status |-> "ok"],
                 [value |-> <<0, 1>>, status |-> "failed"]}

\* mData(index): [value, status, outside].
Coeff(c, index, undefined) ==
    IF index >= 0 /\ index < Count(c)
    THEN [value |-> c.data[index + 1], status |-> "ok", outside |-> FALSE]
    ELSE [value |-> undefined.value, status |-> undefined.status, outside |-> TRUE]

\* float eval(Eigen::DenseIndex index) const
EvalIndex(c, index, undefined) ==
    IF index >= Count(c)
    THEN [value |-> <<0, 1>>, status |-> "ok", outside |-> FALSE]
    ELSE Coeff(c, index, undefined)

\* float eval(Eigen::Vector2i index) const, mData.cols() being size[1] and
\* mData.rows() size[2].
EvalPoint(c, index, undefined) ==
    IF index[1] < 0 \/ index[1] >= c.size[1] \/ index[2] < 0 \/ index[2] >= c.size[2]
    THEN [value |-> <<0, 1>>, status |-> "ok", outside |-> FALSE]
    ELSE Coeff(c, index[1] + index[2] * c.size[1], undefined)

\* The channels read: a buffer of every size up to 2x2 holding 1, 2, ... in
\* storage order.
EvalSizes == {<<1, 1>>, <<2, 1>>, <<1, 2>>, <<2, 2>>}

Ramp(size) == [i \in 1 .. (size[1] * size[2]) |-> <<i, 1>>]

\* The indices and points read: everything from two below to one above the buffer.
EvalIndices(c) == (0 - 2) .. (Count(c) + 1)
EvalPoints(c) == ((0 - 1) .. c.size[1]) \X ((0 - 1) .. c.size[2])

EvalIndexStep ==
    /\ Len(history) < MaxReads
    /\ \E index \in EvalIndices(data.channels[1]) : \E undefined \in OutsideReads :
        LET Read(r) ==
                history' = Append(history, [op |-> "evalIndex", status |-> r.status,
                                            index |-> index, value |-> r.value,
                                            outside |-> r.outside])
        IN Read(EvalIndex(data.channels[1], index, undefined))
    /\ UNCHANGED <<input, data, selector, attempt, loaderVars>>

EvalPointStep ==
    /\ Len(history) < MaxReads
    /\ \E index \in EvalPoints(data.channels[1]) : \E undefined \in OutsideReads :
        LET Read(r) ==
                history' = Append(history, [op |-> "evalPoint", status |-> r.status,
                                            index |-> index, value |-> r.value,
                                            outside |-> r.outside])
        IN Read(EvalPoint(data.channels[1], index, undefined))
    /\ UNCHANGED <<input, data, selector, attempt, loaderVars>>

InitEval ==
    /\ InitLoader
    /\ \E size \in EvalSizes :
        input = [channels |-> <<[name |-> <<"R">>, size |-> size, data |-> Ramp(size)]>>,
                 layers |-> <<>>,
                 dataWindow |-> BoxOfSize(size),
                 displayWindow |-> BoxOfSize(size),
                 hasPremultipliedAlpha |-> TRUE]
    /\ data = input
    /\ selector = <<>>
    /\ history = <<>>
    /\ attempt = NoAttempt

NextEval == EvalIndexStep \/ EvalPointStep

SpecEval == InitEval /\ [][NextEval]_vars

\* ------------------------------------------------- ExrImageLoader: RawChannel
\* Largest width and height of the EXR channels explored.
MaxSide == 4

\* The x and y sampling rates of a channel.
Samplings == {1, 2}

\* The file's sample at column sx, row sy of the subsampled channel.
SourceSample(sx, sy) == <<1 + sx + MaxSide * sy + sy, 1>>

\* RawChannel::resize(size): mData holds size zero-initialised pixels.
Resize(raw, size) == [raw EXCEPT !.mData = [i \in 1 .. size |-> <<0, 1>>]]

\* RawChannel::registerWith: the Imf::Slice (data window at the origin), with
\* strides in pixels.
RegisterWith(raw, width) ==
    [xStride   |-> 1,
     yStride   |-> width \div raw.xSampling,
     xSampling |-> raw.xSampling,
     ySampling |-> raw.ySampling]

\* file.readPixels: the sample of pixel (x, y), for x and y multiples of the
\* sampling rates, is stored at base + (x / xSampling) * xStride
\* + (y / ySampling) * yStride.
ReadPixels(raw, slice, size) ==
    LET Stored(i) ==
            {<<sx, sy>> \in (0 .. (size[1] \div slice.xSampling) - 1)
                            \X (0 .. (size[2] \div slice.ySampling) - 1) :
                sx * slice.xStride + sy * slice.yStride = i}
        Sample(at) == SourceSample(at[1], at[2])
    IN [raw EXCEPT !.mData = [i \in 1 .. Len(raw.mData) |->
                                IF Stored(i - 1) # {}
                                THEN Sample(CHOOSE at \in Stored(i - 1) : TRUE)
                                ELSE raw.mData[i]]]

\* RawChannel::copyToTyped: [data, outside]; a read outside mData is undefined
\* and yields the value undefined.
CopyToTyped(raw, size, undefined) ==
    LET width == size[1]
        widthSubsampled == width \div raw.ySampling
        Index(x, y) == x \div raw.xSampling + (y \div raw.ySampling) * widthSubsampled
        Read(i) == IF i < Len(raw.mData) THEN raw.mData[i + 1] ELSE undefined
    IN [data    |-> [k \in 1 .. (size[1] * size[2]) |->
                        Read(Index((k - 1) % width, (k - 1) \div width))],
        outside |-> \E k \in 1 .. (size[1] * size[2]) :
                        Index((k - 1) % width, (k - 1) \div width) >= Len(raw.mData)]

\* c->at(i).resize((size_t)size.x() * size.y())
ResizeStep ==
    /\ history = <<>>
    /\ input' = Resize(input, Count(data.channels[1]))
    /\ history' = Append(history, [op |-> "resize", status |-> "ok"])
    /\ UNCHANGED <<data, selector, attempt, loaderVars>>

\* registerWith(frameBuffer, dataWindow), then file.readPixels.
ReadPixelsStep ==
    /\ Len(history) = 1
    /\ input' = ReadPixels(input, RegisterWith(input, data.channels[1].size[1]),
                           data.channels[1].size)
    /\ history' = Append(history, [op |-> "readPixels", status |-> "ok"])
    /\ UNCHANGED <<data, selector, attempt, loaderVars>>

\* rawChannels->at(i).copyTo(data.channels[i], priority)
CopyToStep ==
    /\ Len(history) = 2
    /\ \E undefined \in {<<0, 1>>, <<9, 1>>} :
        LET Copied(r) ==
                /\ data' = [data EXCEPT !.channels[1].data = r.data]
                /\ history' = Append(history, [op      |-> "copyTo",
                                               status  |-> "ok",
                                               outside |-> r.outside])
        IN Copied(CopyToTyped(input, data.channels[1].size, undefined))
    /\ UNCHANGED <<input, selector, attempt, loaderVars>>

\* A subsampled channel of an EXR file whose width and height are multiples of
\* the sampling rates, and the full-resolution Channel it is decoded into.
InitExr ==
    /\ InitLoader
    /\ \E w, h \in 1 .. MaxSide : \E xs, ys \in Samplings :
        /\ w % xs = 0
        /\ h % ys = 0
        /\ input = [name |-> <<"R">>, xSampling |-> xs, ySampling |-> ys, mData |-> <<>>]
        /\ data = [channels |-> <<[name |-> <<"R">>, size |-> <<w, h>>,
                                   data |-> [i \in 1 .. (w * h) |-> <<0, 1>>]]>>,
                   layers |-> <<>>,
                   dataWindow |-> BoxOfSize(<<w, h>>),
                   displayWindow |-> BoxOfSize(<<w, h>>),
                   hasPremultipliedAlpha |-> FALSE]
    /\ selector = <<>>
    /\ history = <<>>
    /\ attempt = NoAttempt

NextExr == ResizeStep \/ ReadPixelsStep \/ CopyToStep

SpecExr == InitExr /\ [][NextExr]_vars

\* ------------------------------------------------------ Image construction
\* make_shared<Image>(path, std::move(i), localChannelSelector) on an ImageData that
\* ensureValid accepted.
ImageStep ==
    /\ history = <<[op |-> "ensureValid", status |-> "ok"]>>
    /\ LET Constructed(img) ==
                history' = Append(history, [op     |-> "Image",
                                            status |-> img.status,
                                            groups |-> img.image.mChannelGroups])
       IN Constructed(NewImage(data, drawId))
    /\ sId' = sId + 1
    /\ UNCHANGED <<input, data, selector, attempt, mUnsortedLoadCounter, mLoadCounter,
                   loads, mPendingLoadedImages, mLoadedImages, polled, posts,
                   foreground>>

NextImage == EnsureValidStep \/ ImageStep

SpecImage == InitLoad /\ [][NextImage]_vars

\* ------------------------------------------- Image::getGroupedChannels calls
\* Channels per image in the grouping runs.
MaxGroupChannels == 5

\* Channel names of the grouping runs: members of the tuples {R,G,B}, {X,Y,Z},
\* {U,V}, {Z} and {z}, the non-canonical N, the alphas, and names of a layer "a".
GroupNames == {<<"R">>, <<"G">>, <<"B">>, <<"A">>, <<"Z">>, <<"X">>, <<"U">>, <<"V">>,
               <<"z">>, <<"N">>, <<"a", ".", "R">>, <<"a", ".", "G">>,
               <<"a", ".", "A">>, <<"a", "b">>}

Reverse(s) == [i \in 1 .. Len(s) |-> s[Len(s) + 1 - i]]

\* image.getGroupedChannels(layerName) for a layer of the image.
GetGroupedChannelsStep ==
    /\ history = <<>>
    /\ \E l \in 1 .. Len(data.layers) :
        LET Called(r) ==
                history' = Append(history, [op     |-> "getGroupedChannels",
                                            status |-> r.status,
                                            layer  |-> data.layers[l],
                                            groups |-> r.groups])
        IN Called(GetGroupedChannels(data, data.layers[l]))
    /\ UNCHANGED <<input, data, selector, attempt, loaderVars>>

\* The validated ImageData of an image: up to MaxGroupChannels channels of
\* distinct names in ascending or descending name order, layers derived.
InitGroup ==
    /\ InitLoader
    /\ \E S \in SUBSET GroupNames :
       \E descending \in BOOLEAN :
            /\ S # {}
            /\ Cardinality(S) <= MaxGroupChannels
            /\ input = MakeImageData(IF descending THEN Reverse(SortedStrings(S))
                                                   ELSE SortedStrings(S),
                                     [i \in 1 .. Cardinality(S) |-> <<1, 1>>], 1,
                                     <<BoxOfSize(<<1, 1>>), BoxOfSize(<<1, 1>>)>>,
                                     TRUE, TRUE)
    /\ data = input
    /\ selector = <<>>
    /\ history = <<>>
    /\ attempt = NoAttempt

SpecGroup == InitGroup /\ [][GetGroupedChannelsStep]_vars

Init == InitLoader /\ InitNoImage

Next ==
    \/ Enqueue
    \/ \E id \in LoadIds : Load(id)
    \/ \E id \in LoadIds : Push(id)
    \/ \E id \in LoadIds : PublishSortedLoads(id)
    \/ \E id \in LoadIds : PostEvent(id)
    \/ Poll

Spec == Init /\ [][Next]_vars

\* Requests enqueued in the runs under fair scheduling.
MaxFairLoads == 2

NextFair ==
    \/ mUnsortedLoadCounter < MaxFairLoads /\ Enqueue
    \/ \E id \in LoadIds : Load(id)
    \/ \E id \in LoadIds : Push(id)
    \/ \E id \in LoadIds : PublishSortedLoads(id)
    \/ \E id \in LoadIds : PostEvent(id)
    \/ Poll

\* Fair scheduling: the thread pool resumes every started coroutine, and a
\* coroutine waiting for mPendingLoadedImagesMutex eventually gets it. Nothing
\* obliges the caller to enqueue or the consumer to poll.
Fairness ==
    \A id \in 0 .. (MaxFairLoads - 1) :
        /\ WF_vars(id \in LoadIds /\ Load(id))
        /\ WF_vars(id \in LoadIds /\ Push(id))
        /\ WF_vars(id \in LoadIds /\ PublishSortedLoads(id))
        /\ WF_vars(id \in LoadIds /\ PostEvent(id))

SpecFair == Init /\ [][NextFair]_vars /\ Fairness

\* ------------------------------------------- loads outside the loader
\* tryLoadImage(path, channelSelector): a foreground load, at the draw id.
ForegroundLoad ==
    /\ Len(foreground) < MaxForeground
    /\ foreground' = Append(foreground, [kind         |-> "path",
                                         taskPriority |-> ForegroundPriority(drawId),
                                         pc           |-> "loading"])
    /\ sId' = sId + 1
    /\ UNCHANGED <<mUnsortedLoadCounter, mLoadCounter, loads, mPendingLoadedImages,
                   mLoadedImages, polled, posts, imageVars>>

\* tryLoadImage(path, iStream, channelSelector): a load from a stream.
StreamLoad ==
    /\ Len(foreground) < MaxForeground
    /\ foreground' = Append(foreground, [kind         |-> "stream",
                                         taskPriority |-> StreamPriority(drawId),
                                         pc           |-> "loading"])
    /\ sId' = sId + 1
    /\ UNCHANGED <<mUnsortedLoadCounter, mLoadCounter, loads, mPendingLoadedImages,
                   mLoadedImages, polled, posts, imageVars>>

\* Such a load ends; when it succeeded it constructed an Image, which took a draw id.
ForegroundFinish(k) ==
    /\ foreground[k].pc = "loading"
    /\ \E raised \in {"none"} \cup ExceptionKinds :
        /\ foreground' = [foreground EXCEPT ![k].pc = TryLoadOutcome(raised)]
        /\ sId' = IF TryLoadOutcome(raised) = "images" THEN sId + 1 ELSE sId
    /\ UNCHANGED <<mUnsortedLoadCounter, mLoadCounter, loads, mPendingLoadedImages,
                   mLoadedImages, polled, posts, imageVars>>

NextPriorities ==
    \/ Enqueue
    \/ ForegroundLoad
    \/ StreamLoad
    \/ \E k \in 1 .. Len(foreground) : ForegroundFinish(k)

SpecPriorities == Init /\ [][NextPriorities]_vars

\* Every record that was ever appended to the published FIFO, in append order.
Published == polled \o mLoadedImages

\* C1: the records appended to the published FIFO are in strictly increasing
\* sequence-id order, whatever the order in which the loads complete.
C1_PublishedInRequestOrder ==
    \A i, j \in 1 .. Len(Published) :
        i < j => Published[i].loadId < Published[j].loadId

\* C1 witness: loads 0, 1, 2 all succeeded, load 2 completed before load 1,
\* whose drain published the records of both, and all three are published.
C1_Witness ==
    /\ mUnsortedLoadCounter >= 3
    /\ Len(Published) = 3
    /\ LoadOf(2).pc = "done" /\ ~LoadOf(2).pushed
    /\ LoadOf(1).pc = "done" /\ LoadOf(1).pushed

\* The record a load pushes.
RecordOf(id) == [loadId |-> id, shallSelect |-> LoadOf(id).shallSelect,
                 images |-> LoadOf(id).images]

\* The loads whose record is not in the buffer yet.
NotPushed(id) == LoadOf(id).pc \in {"queued", "loaded", "escaped"}

\* C2: a load with an empty image list is consumed (mLoadCounter passes its id)
\* but never published: the published FIFO holds exactly the records of the
\* consumed ids that have images; and it blocks no later id: once no load sits
\* between its push and its drain, mLoadCounter is the first id not pushed yet.
C2_FailedLoadsConsumeTheirSlot ==
    /\ mLoadCounter \in 0 .. mUnsortedLoadCounter
    /\ \A id \in 0 .. (mLoadCounter - 1) : LoadOf(id).pc \in {"pushed", "returned", "done"}
    /\ \A r \in mPendingLoadedImages : r.loadId >= mLoadCounter
    /\ \A i \in 1 .. Len(Published) :
        /\ Published[i].loadId < mLoadCounter
        /\ Published[i] = RecordOf(Published[i].loadId)
        /\ Published[i].images # <<>>
    /\ {Published[i].loadId : i \in 1 .. Len(Published)}
            = {id \in 0 .. (mLoadCounter - 1) : LoadOf(id).images # <<>>}
    /\ (\A id \in LoadIds : LoadOf(id).pc # "pushed")
            => \A id \in LoadIds : (id < mLoadCounter) <=> (\A k \in 0 .. id : ~NotPushed(k))

\* C2 witness: of the loads 0, 1, 2 the load 1 failed; all three are consumed
\* and the published sequence is exactly [0, 2].
C2_Witness ==
    /\ mLoadCounter = 3
    /\ LoadOf(1).images = <<>>
    /\ Len(Published) = 2
    /\ Published[1].loadId = 0 /\ Published[2].loadId = 2

\* C4 as claimed: of two requests, the one enqueued later has the strictly
\* higher priority.
C4_LaterHasHigherPriority ==
    \A i, j \in LoadIds : i < j => LoadOf(j).taskPriority > LoadOf(i).taskPriority

\* C4, amended: of two requests, the one enqueued later has the strictly lower
\* priority (the negated draw id), so the oldest request is serviced first.
C4_LaterHasLowerPriority ==
    \A i, j \in LoadIds : i < j => LoadOf(j).taskPriority < LoadOf(i).taskPriority

\* C4 witness: two requests, with a foreground load started between their enqueues.
C4_Witness ==
    /\ mUnsortedLoadCounter >= 2
    /\ LoadOf(0).taskPriority = 0
    /\ LoadOf(1).taskPriority = -2

C3_EveryErrorIsCaught ==
    (attempt.pc # "idle" /\ attempt.raised # "none")
        => /\ attempt.pc = "returned"
           /\ attempt.images = <<>>
           /\ attempt.errors = 1

\* The single ensureValid call of a load has completed without error.
Validated == history = <<[op |-> "ensureValid", status |-> "ok"]>>

\* ensureValid has run, with whatever result.
ValidationRan == Len(history) = 1 /\ history[1].op = "ensureValid"

\* C6 as claimed: whenever ensureValid completes without error, the channel list
\* is not empty, every channel has the data window's size, and
\* hasPremultipliedAlpha is true.
C6_ValidatedImageDataInvariants ==
    Validated
        => /\ data.channels # <<>>
           /\ \A i \in 1 .. Len(data.channels) : data.channels[i].size = SizeOf(data)
           /\ data.hasPremultipliedAlpha

\* The size every channel must have: the data window's, which defaults to the
\* first channel's size.
ExpectedSize(d) ==
    IF IsValid(d.dataWindow) THEN BoxSize(d.dataWindow) ELSE d.channels[1].size

\* C7: ensureValid fails on an empty channel list, and otherwise (after the
\* windows defaulted to the first channel's size) when some channel's size
\* differs from the data window's; a failed ensureValid has removed, reordered
\* and modified no channel, derived no layer and multiplied nothing.
C7_ChecksComeFirst ==
    ValidationRan
        => /\ (input.channels = <<>>) => (history[1].status = "EmptyImage" /\ data = input)
           /\ (/\ input.channels # <<>>
               /\ \E i \in 1 .. Len(input.channels) :
                    input.channels[i].size # ExpectedSize(input))
                => /\ history[1].status = "SizeMismatch"
                   /\ IsValid(data.dataWindow) /\ IsValid(data.displayWindow)
                   /\ SizeOf(data) = ExpectedSize(input)
           /\ (history[1].status # "ok")
                => /\ data.channels = input.channels
                   /\ data.layers = input.layers
                   /\ data.hasPremultipliedAlpha = input.hasPremultipliedAlpha

\* C7 witness: a size mismatch in a later channel, found after the windows were
\* defaulted, with a selector that would have dropped a channel and an alpha
\* channel that would have been multiplied in.
C7_Witness ==
    /\ ValidationRan
    /\ history[1].status = "SizeMismatch"
    /\ ~IsValid(input.dataWindow) /\ IsValid(data.dataWindow)
    /\ selector = <<<<"R">>>>
    /\ ~input.hasPremultipliedAlpha
    /\ ChannelNames(input) = <<<<"R">>, <<"A">>>>
    /\ input.channels[1].size # input.channels[2].size

\* The position of a name in a channel list.
IndexOf(d, name) == CHOOSE i \in 1 .. Len(d.channels) : d.channels[i].name = name

\* C8: with a non-empty selector a successful ensureValid keeps exactly the
\* channels whose names match it, ordered by (match rank, original index); with
\* an empty selector the channel list keeps its names and order.
C8_SelectorFiltersAndOrders ==
    Validated
        => IF selector = <<>>
           THEN ChannelNames(data) = ChannelNames(input)
           ELSE /\ {data.channels[k].name : k \in 1 .. Len(data.channels)}
                     = {input.channels[i].name : i \in
                            {j \in 1 .. Len(input.channels) :
                                MatchesFuzzy(input.channels[j].name, selector)}}
                /\ \A k, l \in 1 .. Len(data.channels) :
                     k < l =>
                        LET nk == data.channels[k].name
                            nl == data.channels[l].name
                        IN \/ MatchId(nk, selector) < MatchId(nl, selector)
                           \/ /\ MatchId(nk, selector) = MatchId(nl, selector)
                              /\ IndexOf(input, nk) < IndexOf(input, nl)

\* C8 witness: selector "R,A" on the channels A, a.R, R keeps all three and
\* puts the two channels matching "R" first, in their original order.
C8_Witness ==
    /\ Validated
    /\ selector = <<<<"R">>, <<"A">>>>
    /\ ChannelNames(input) = <<<<"A">>, <<"a", ".", "R">>, <<"R">>>>
    /\ ChannelNames(data) = <<<<"a", ".", "R">>, <<"R">>, <<"A">>>>

\* C9 as claimed: after a successful ensureValid of an ImageData that was not
\* premultiplied, every non-alpha channel of a layer with an "A" channel holds
\* its value times that alpha, elementwise, and every other channel holds its
\* value unchanged.
C9_MultipliedExactlyOnce ==
    (Validated /\ ~input.hasPremultipliedAlpha)
        => \A k \in 1 .. Len(data.channels) :
            LET name == data.channels[k].name
                alpha == AlphaChannelName(ChannelHead(name))
                was == input.channels[IndexOf(input, name)].data
            IN IF name # alpha /\ HasChannel(data, alpha)
               THEN data.channels[k].data =
                        [i \in 1 .. Len(was) |->
                            MultiplyWith(was[i], input.channels[IndexOf(input, alpha)].data[i])]
               ELSE data.channels[k].data = was

\* C10: multiplyAlpha fails when hasPremultipliedAlpha is already true and
\* unmultiplyAlpha when it is already false; a failing call changes neither the
\* flag nor any value, a succeeding call flips the flag, and the second of two
\* consecutive calls of the same operation fails.
C10_AlphaGuards ==
    [][(Len(history') = Len(history) + 1 /\ Last(history').op # "ensureValid"
                                         /\ Last(history').op # "tryLoadImage")
        => /\ (Last(history').op = "multiplyAlpha") =>
                IF data.hasPremultipliedAlpha
                THEN Last(history').status = "DoubleMultiply" /\ data' = data
                ELSE Last(history').status = "ok" /\ data'.hasPremultipliedAlpha
           /\ (Last(history').op = "unmultiplyAlpha") =>
                IF ~data.hasPremultipliedAlpha
                THEN Last(history').status = "DoubleDivide" /\ data' = data
                ELSE Last(history').status = "ok" /\ ~data'.hasPremultipliedAlpha
           /\ (history # <<>> /\ Last(history).op = Last(history').op)
                => Last(history').status \in {"DoubleMultiply", "DoubleDivide"}]_vars

\* C10 witness: multiplyAlpha succeeded and changed a channel, and the
\* multiplyAlpha that followed it failed.
C10_Witness ==
    /\ history = <<[op |-> "multiplyAlpha", status |-> "ok"],
                   [op |-> "multiplyAlpha", status |-> "DoubleMultiply"]>>
    /\ data.channels # input.channels
    /\ data.hasPremultipliedAlpha

\* The value of the channel called name at the linear index i (from 1).
ValueAt(d, name, i) == d.channels[IndexOf(d, name)].data[i]

\* multiplyAlpha and then unmultiplyAlpha ran on the input, both without error.
RoundTripped ==
    history = <<[op |-> "multiplyAlpha", status |-> "ok"],
                [op |-> "unmultiplyAlpha", status |-> "ok"]>>

\* C11 as claimed: after multiplyAlpha followed by unmultiplyAlpha, every
\* non-alpha channel of a layer of the layer list that has an "A" channel holds
\* its former value wherever that alpha is not zero and 0 where it is zero, and
\* every alpha channel holds its former values.
C11_RoundTripRestores ==
    RoundTripped
        => \A k \in 1 .. Len(data.channels) :
            LET name == data.channels[k].name
                layer == ChannelHead(name)
                alpha == AlphaChannelName(layer)
            IN /\ data.channels[k].name = input.channels[k].name
               /\ (name = alpha) => data.channels[k].data = input.channels[k].data
               /\ (name # alpha /\ HasChannel(input, alpha) /\ Found(input.layers, layer))
                    => \A i \in 1 .. Len(data.channels[k].data) :
                        data.channels[k].data[i] =
                            IF ValueAt(input, alpha, i) # Zero
                            THEN input.channels[k].data[i]
                            ELSE Zero

\* C12: A.divideBy(B) on equal-size channels leaves in every index i of A zero
\* if B[i] is zero and otherwise the quotient (the value q with q * B[i] = A[i]);
\* it assigns every index of A exactly once and changes no other channel.
C12_DivideByQuotients ==
    [][(Len(history') = Len(history) + 1 /\ Last(history').op = "divideBy")
        => LET h == Last(history')
               A == data.channels[h.target]
               B == data.channels[h.other]
               result == data'.channels[h.target]
           IN /\ \A i \in 1 .. Count(A) :
                    IF B.data[i] = Zero
                    THEN result.data[i] = Zero
                    ELSE /\ MultiplyWith(result.data[i], B.data[i]) = A.data[i]
                         /\ result.data[i] = Norm(result.data[i])
              /\ Len(h.written) = Count(A)
              /\ {h.written[k] : k \in 1 .. Len(h.written)} = 0 .. (Count(A) - 1)
              /\ \A c \in 1 .. Len(data.channels) :
                    c # h.target => data'.channels[c] = data.channels[c]
              /\ result.name = A.name /\ result.size = A.size]_vars

\* C12 witness: R = (2, 1) divided by A = (0, 2) gives R = (0, 1/2).
C12_Witness ==
    /\ Len(history) = 1 /\ history[1].op = "divideBy"
    /\ ChannelNames(input) = <<<<"R">>, <<"A">>>>
    /\ history[1].target = 1 /\ history[1].other = 2
    /\ input.channels[1].data = <<Two, One>>
    /\ input.channels[2].data = <<Zero, Two>>
    /\ data.channels[1].data = <<Zero, Half>>
    /\ data.channels[2] = input.channels[2]

\* C13 as claimed: every read by eval, by linear index or by point, succeeds
\* and never reads outside the buffer; it returns 0 for every index outside the
\* buffer, negative ones included, and for an index inside it the value stored
\* at the row-major position x + y * width.
C13_EvalIsBoundsSafe ==
    \A k \in 1 .. Len(history) :
        LET h == history[k]
            c == data.channels[1]
        IN /\ (h.op = "evalIndex")
                => /\ h.status = "ok" /\ ~h.outside
                   /\ h.value = IF h.index \in 0 .. (Count(c) - 1)
                                THEN c.data[h.index + 1] ELSE Zero
           /\ (h.op = "evalPoint")
                => /\ h.status = "ok" /\ ~h.outside
                   /\ h.value = IF /\ h.index[1] \in 0 .. (c.size[1] - 1)
                                   /\ h.index[2] \in 0 .. (c.size[2] - 1)
                                THEN c.data[h.index[1] + h.index[2] * c.size[1] + 1]
                                ELSE Zero

\* ------------------------------------------------ channel groups (C14-C17)
\* The layer's channels that take part in the grouping: all but its alpha.
GroupPool(d, layer) ==
    LET NotAlpha(name) == name # AlphaChannelName(layer)
    IN SelectSeq(ChannelsInLayer(d, layer), NotAlpha)

LayerHasAlpha(d, layer) == Found(ChannelsInLayer(d, layer), AlphaChannelName(layer))

\* The names the tuple Groups[g] stands for in a layer.
TupleNames(g, layer) == {LayerPrefix(layer) \o <<Groups[g][k]>> : k \in 1 .. Len(Groups[g])}

\* The members of Groups[g] present in the pool and in no earlier tuple, in
\* tuple order.
PresentMembers(pool, g, layer) ==
    LET Present(c) == /\ Found(pool, LayerPrefix(layer) \o <<c>>)
                      /\ \A h \in 1 .. (g - 1) :
                            LayerPrefix(layer) \o <<c>> \notin TupleNames(h, layer)
        Named(members) == [k \in 1 .. Len(members) |-> LayerPrefix(layer) \o <<members[k]>>]
    IN Named(SelectSeq(Groups[g], Present))

Thrice(members) ==
    IF Len(members) = 1 THEN <<members[1], members[1], members[1]>> ELSE members

\* The groups the claim describes, without alpha: one per tuple with a present
\* member, then one per channel that belongs to no tuple.
ExpectedGroups(pool, layer) ==
    LET NonEmpty(members) == members # <<>>
        InNoTuple(name) == \A g \in 1 .. Len(Groups) : name \notin TupleNames(g, layer)
        Leftover(rest) == [k \in 1 .. Len(rest) |-> <<rest[k], rest[k], rest[k]>>]
    IN SelectSeq([g \in 1 .. Len(Groups) |-> Thrice(PresentMembers(pool, g, layer))],
                 NonEmpty)
       \o Leftover(SelectSeq(pool, InNoTuple))

\* The members of a group before the alpha channel was appended.
WithoutAlpha(channels, hasAlpha) ==
    IF hasAlpha THEN SubSeq(channels, 1, Len(channels) - 1) ELSE channels

GroupChannels(groups) == [i \in 1 .. Len(groups) |-> groups[i].channels]

GroupCalls == {k \in 1 .. Len(history) : history[k].op = "getGroupedChannels"}

\* C14: getGroupedChannels tries the canonical tuples in their fixed order; each
\* tuple with a present, not yet consumed member yields one group of its present
\* members in tuple order, a single member is tripled, and every channel left
\* over becomes its own tripled group after the tuple groups; {R,G,B,A,Z} in the
\* root layer gives exactly {R,G,B,A} and {Z,Z,Z,A}.
C14_TuplesInFixedOrder ==
    \A k \in GroupCalls :
        /\ GroupPool(data, history[k].layer) # <<>> =>
            /\ history[k].status = "ok"
            /\ [i \in 1 .. Len(history[k].groups) |->
                    WithoutAlpha(history[k].groups[i].channels,
                                 LayerHasAlpha(data, history[k].layer))]
               = ExpectedGroups(GroupPool(data, history[k].layer), history[k].layer)
        /\ ( /\ history[k].layer = <<>>
             /\ {n \in GroupNames : HasChannel(data, n) /\ ~HasDot(n)}
                    = {<<"R">>, <<"G">>, <<"B">>, <<"A">>, <<"Z">>} )
           => GroupChannels(history[k].groups)
                = << <<<<"R">>, <<"G">>, <<"B">>, <<"A">>>>,
                     <<<<"Z">>, <<"Z">>, <<"Z">>, <<"A">>>> >>

\* The root layer of an image with exactly the channels R, G, B, A, Z was grouped.
C14_Witness ==
    \E k \in GroupCalls :
        /\ history[k].layer = <<>>
        /\ {n \in GroupNames : HasChannel(data, n)}
                = {<<"R">>, <<"G">>, <<"B">>, <<"A">>, <<"Z">>}
        /\ Len(history[k].groups) = 2

\* C15: when the layer has an "A" channel, it is never matched as a tuple
\* member and is the 4th member of every resulting group, also where only two
\* members of a tuple are present; when alpha is the layer's only channel the
\* result is one group of the alpha channel three times.
C15_AlphaIsFourthMember ==
    \A k \in GroupCalls :
        LayerHasAlpha(data, history[k].layer) =>
            IF GroupPool(data, history[k].layer) = <<>>
            THEN GroupChannels(history[k].groups)
                    = << <<AlphaChannelName(history[k].layer),
                           AlphaChannelName(history[k].layer),
                           AlphaChannelName(history[k].layer)>> >>
            ELSE \A i \in 1 .. Len(history[k].groups) :
                    /\ Len(history[k].groups[i].channels) = 4
                    /\ history[k].groups[i].channels[4] = AlphaChannelName(history[k].layer)
                    /\ \A m \in 1 .. 3 :
                          history[k].groups[i].channels[m] # AlphaChannelName(history[k].layer)

\* C16: for every Image built from an ImageData that passed ensureValid, with
\* any selector and with layers derived by ensureValid or supplied by the
\* loader, getGroupedChannels yields at least one group for every layer, so
\* the ">= 1 group" assertion never fires.
C16_EveryLayerHasAGroup ==
    \A k \in 1 .. Len(history) :
        history[k].op = "Image" =>
            /\ history[k].status = "ok"
            /\ \A l \in 1 .. Len(data.layers) :
                    GetGroupedChannels(data, data.layers[l]).groups # <<>>

\* The tails of a group's members, each once, in order of first appearance.
DistinctTails(channels) ==
    LET First(i) == \A j \in 1 .. (i - 1) : ChannelTail(channels[j]) # ChannelTail(channels[i])
        At(idx) == [k \in 1 .. Len(idx) |-> ChannelTail(channels[idx[k]])]
    IN At(SelectSeq([i \in 1 .. Len(channels) |-> i], First))

\* The tails separated by commas.
RECURSIVE CommaList(_)
CommaList(tails) ==
    IF Len(tails) = 1 THEN tails[1]
    ELSE CommaList(SubSeq(tails, 1, Len(tails) - 1)) \o <<",">> \o tails[Len(tails)]

Parenthesised(list) == <<"(">> \o list \o <<")">>

\* C17 as claimed: a group's name is the comma-joined list of its members'
\* de-duplicated tails, in parentheses whenever more than one distinct tail
\* remains and bare otherwise, prefixed by "layer." when the layer is not the
\* root layer; root-layer groups follow the same rule.
C17_ParenthesisedWheneverSeveralTails ==
    \A k \in GroupCalls : \A i \in 1 .. Len(history[k].groups) :
        history[k].groups[i].name
            = LayerPrefix(history[k].layer)
              \o (IF Len(DistinctTails(history[k].groups[i].channels)) > 1
                  THEN Parenthesised(CommaList(DistinctTails(history[k].groups[i].channels)))
                  ELSE CommaList(DistinctTails(history[k].groups[i].channels)))

\* C17 as amended: a group's name is the comma-joined list of its members'
\* de-duplicated tails; in a named layer it is prefixed by "layer." and the list
\* is in parentheses when more than one distinct tail remains; in the root
\* layer the list is always bare.
C17_ParenthesisedInNamedLayersOnly ==
    \A k \in GroupCalls : \A i \in 1 .. Len(history[k].groups) :
        history[k].groups[i].name
            = LayerPrefix(history[k].layer)
              \o (IF /\ Len(DistinctTails(history[k].groups[i].channels)) > 1
                     /\ history[k].layer # <<>>
                  THEN Parenthesised(CommaList(DistinctTails(history[k].groups[i].channels)))
                  ELSE CommaList(DistinctTails(history[k].groups[i].channels)))

\* The layer "a" of an image was grouped into the group named a.(R,G,A).
C17_Witness ==
    \E k \in GroupCalls : \E i \in 1 .. Len(history[k].groups) :
        /\ history[k].layer = <<"a">>
        /\ history[k].groups[i].name = <<"a", ".", "(", "R", ",", "G", ",", "A", ")">>

\* C18: a violated defensive post-condition (ensureValid's hasPremultipliedAlpha
\* assertion, getGroupedChannels' ">= 1 group" assertion) during a load is
\* fatal: tryLoadImage does not log it and return an empty result as it does
\* for an ordinary failed load.
C18_AssertionsAreFatal ==
    \A k \in 1 .. Len(history) :
        (history[k].op = "tryLoadImage" /\ history[k].assertion)
            => /\ history[k].status # "empty"
               /\ attempt.pc # "returned"

\* C19: for a channel subsampled by (xSampling, ySampling), every pixel (x, y)
\* of the decoded Channel equals the source sample at column x / xSampling and
\* row y / ySampling, for all sampling pairs, and every read stays inside the
\* raw buffer.
C19_UpsampledToFullResolution ==
    (Len(history) = 3 /\ history[3].op = "copyTo") =>
        /\ ~history[3].outside
        /\ \A x \in 0 .. (data.channels[1].size[1] - 1) :
           \A y \in 0 .. (data.channels[1].size[2] - 1) :
                data.channels[1].data[x + y * data.channels[1].size[1] + 1]
                    = SourceSample(x \div input.xSampling, y \div input.ySampling)

\* The step inserts the record of the load o, or runs o's drain.
InsertsOrDrains(o) ==
    \/ LoadOf(o).pc = "loaded" /\ loads'[o + 1].pc = "pushed"
    \/ LoadOf(o).pc = "pushed" /\ loads'[o + 1].pc = "returned"

\* C20 as claimed: a completion's insert and its drain loop are performed under
\* one exclusive access: between a completion's insert and its drain no other
\* completion inserts or drains.
C20_InsertAndDrainInOneAccess ==
    [][\A id \in LoadIds :
            LoadOf(id).pc = "pushed" =>
                \A o \in LoadIds \ {id} : ~InsertsOrDrains(o)]_vars

\* C20 as amended: the insert is performed under one exclusive access and the
\* drain loop under a second one. Each is atomic in itself: an insert adds the
\* completion's own record and nothing else, and a drain loop, once begun, runs
\* until the buffer is empty or its minimum key differs from nextExpected,
\* with no insert in between.
C20_InsertAndDrainEachExclusive ==
    [][\A id \in LoadIds :
            /\ (LoadOf(id).pc = "loaded" /\ loads'[id + 1].pc = "pushed") =>
                    /\ mPendingLoadedImages' \ mPendingLoadedImages
                            = {[loadId      |-> id,
                                shallSelect |-> LoadOf(id).shallSelect,
                                images      |-> LoadOf(id).images]}
                    /\ mPendingLoadedImages \subseteq mPendingLoadedImages'
                    /\ mLoadCounter' = mLoadCounter
                    /\ mLoadedImages' = mLoadedImages
            /\ (LoadOf(id).pc = "pushed" /\ loads'[id + 1].pc = "returned") =>
                    /\ mPendingLoadedImages' \subseteq mPendingLoadedImages
                    /\ \A r \in mPendingLoadedImages' : r.loadId # mLoadCounter'
                    /\ mLoadCounter' - mLoadCounter
                            = Cardinality(mPendingLoadedImages \ mPendingLoadedImages')]_vars

\* Two completions have both inserted their records and neither has run its
\* drain loop yet.
C20_Witness ==
    \E id, o \in LoadIds :
        /\ id # o
        /\ LoadOf(id).pc = "pushed"
        /\ LoadOf(o).pc = "pushed"

\* The channels of d whose head is the layer, in channel-list order.
ChannelsWithHead(d, layer) ==
    LET HeadIs(name) == ChannelHead(name) = layer
    IN SelectSeq(ChannelNames(d), HeadIs)

\* C23: when ensureValid derived the layers, the layer list is the set of
\* unique heads of the remaining channel names, channelsInLayer(L) returns, in
\* channel-list order, exactly the channels whose head is L, and so every
\* channel belongs to exactly one layer, also where a dot-free name starts
\* with another layer's name.
C23_ChannelsInLayerAreThoseWithItsHead ==
    (Validated /\ input.layers = <<>>) =>
        /\ {data.layers[l] : l \in 1 .. Len(data.layers)}
                = {ChannelHead(data.channels[i].name) : i \in 1 .. Len(data.channels)}
        /\ \A l, m \in 1 .. Len(data.layers) : l # m => data.layers[l] # data.layers[m]
        /\ \A l \in 1 .. Len(data.layers) :
                ChannelsInLayer(data, data.layers[l]) = ChannelsWithHead(data, data.layers[l])
        /\ \A i \in 1 .. Len(data.channels) :
                Cardinality({l \in 1 .. Len(data.layers) :
                                Found(ChannelsInLayer(data, data.layers[l]),
                                      data.channels[i].name)}) = 1

\* The groups of the call k that hold the channel name.
GroupsHolding(k, name) ==
    {i \in 1 .. Len(history[k].groups) : Found(history[k].groups[i].channels, name)}

\* C24: the groups returned by getGroupedChannels partition the layer's
\* non-alpha channels: each of them is a member of exactly one group, no group
\* contains a channel of another layer, and every group has 1 to 4 members.
C24_GroupsPartitionTheLayer ==
    \A k \in GroupCalls :
        /\ \A c \in 1 .. Len(data.channels) :
                ( /\ ChannelHead(data.channels[c].name) = history[k].layer
                  /\ data.channels[c].name # AlphaChannelName(history[k].layer) )
                => Cardinality(GroupsHolding(k, data.channels[c].name)) = 1
        /\ \A i \in 1 .. Len(history[k].groups) :
                /\ Len(history[k].groups[i].channels) \in 1 .. 4
                /\ \A m \in 1 .. Len(history[k].groups[i].channels) :
                        ChannelHead(history[k].groups[i].channels[m]) = history[k].layer

\* Every coroutine started by enqueue has ended, normally or by an exception.
AllFinished == \A id \in LoadIds : LoadOf(id).pc \in {"done", "escaped"}

\* C21: under fair scheduling every enqueued request eventually has its record
\* inserted and its sequence slot consumed, however its load ends; and once all
\* requests have finished, the pending buffer is empty, mLoadCounter equals
\* mUnsortedLoadCounter, and every successful request is published.
C21_EveryRequestIsConsumed ==
    /\ \A id \in 0 .. (MaxFairLoads - 1) :
            (mUnsortedLoadCounter > id) ~> (mLoadCounter > id)
    /\ [](AllFinished =>
            /\ mPendingLoadedImages = {}
            /\ mLoadCounter = mUnsortedLoadCounter
            /\ \A id \in LoadIds :
                    LoadOf(id).images # <<>> =>
                        \E i \in 1 .. Len(Published) : Published[i].loadId = id)

\* The step is the call of publishSortedLoads by the completion id, and the
\* step in which that completion acts on the call's result.
DrainsBy(id) == LoadOf(id).pc = "pushed" /\ loads'[id + 1].pc = "returned"
ActsOnResult(id) == LoadOf(id).pc = "returned" /\ loads'[id + 1].pc = "done"

\* A step keeps the notifications in line with the drains.
NotifiesPerDrain ==
    /\ Published' # Published => \E d \in LoadIds : DrainsBy(d)
    /\ posts' # posts => \E a \in LoadIds : ActsOnResult(a)
    /\ \A id \in LoadIds :
        /\ DrainsBy(id) =>
                /\ loads'[id + 1].pushed <=> (mLoadCounter' > mLoadCounter)
                /\ Len(Published') > Len(Published) => loads'[id + 1].pushed
        /\ ActsOnResult(id) =>
                posts' = IF LoadOf(id).pushed THEN posts + 1 ELSE posts

\* C22: publishSortedLoads returns true exactly when it popped at least one
\* record (mLoadCounter advanced), also when it popped only failed loads and
\* appended nothing; records are appended to the published FIFO only by a
\* drain, and the completion that ran a drain which returned true posts one
\* wake-up notification, under every interleaving of completions.
C22_AppendIsFollowedByNotification ==
    /\ [][NotifiesPerDrain]_vars
    /\ \A id \in 0 .. (MaxFairLoads - 1) :
            (id \in LoadIds /\ LoadOf(id).pc = "returned")
                ~> (id \in LoadIds /\ LoadOf(id).pc = "done")

\* The load 1 inserted its record first; the drain of the failed load 0 popped
\* both records, appended that of load 1 and was followed by the one
\* notification, while the drain of load 1 popped nothing and posted nothing.
C22_Witness ==
    /\ mUnsortedLoadCounter >= 2
    /\ LoadOf(0).pc = "done" /\ LoadOf(0).pushed /\ LoadOf(0).images = <<>>
    /\ LoadOf(1).pc = "done" /\ ~LoadOf(1).pushed /\ LoadOf(1).images # <<>>
    /\ mLoadCounter = 2
    /\ Len(Published) = 1
    /\ posts = 1

====
